---- MODULE Spec2Model ----
(***************************************************************************)
(* Model of the opening-hours evaluation engine: the interval algebra      *)
(* (src/src/utils/range.rs), the per-day schedule combiner and the         *)
(* timeline iterator with its query facade (src/src/opening_hours.rs).     *)
(*                                                                         *)
(* Time is scaled down.  A within-day time (ExtendedTime) is a number of   *)
(* minutes, 0 .. 2 * MinutesPerDay, where MinutesPerDay stands for 24:00.  *)
(* An instant (NaiveDateTime) is a number of ticks, TicksPerMinute ticks   *)
(* to the minute, so that instants exist that are not on a minute.         *)
(* Calendar dates are integers; DATE_LIMIT is 00:00 on date DateLimitDay.  *)
(***************************************************************************)
EXTENDS Integers, Sequences, FiniteSets, TLC

\* ------------------------------------------------------------------ bounds

\* Number of minutes of a day: 24:00 is MinutesPerDay, 48:00 twice that.
MinutesPerDay == 2

\* Resolution of an instant below the minute.
TicksPerMinute == 2

\* The calendar date of DATE_LIMIT (dates 0 .. DateLimitDay - 1 are below it).
DateLimitDay == 3

\* Largest number of rule sequences of an expression.
MaxRules == 2

\* Largest number of characters of a region code given to with_region.
MaxRegionLen == 2

\* Largest bound of a range given to the interval algebra (bounds 0 .. MaxPoint).
MaxPoint == 3

\* Largest number of ranges given to time_ranges_union.
MaxRanges == 3

\* ------------------------------------------------------------ time helpers

TicksPerDay == MinutesPerDay * TicksPerMinute

\* NaiveDateTime::new(date, time) for a time on a minute.
DateTimeNew(date, minute) == date * TicksPerDay + minute * TicksPerMinute

\* NaiveDateTime::date()
DateOf(t) == t \div TicksPerDay

\* NaiveDateTime::time() converted into an ExtendedTime: hours and minutes
\* only, what is below the minute is dropped.
ExtendedTimeOf(t) == (t % TicksPerDay) \div TicksPerMinute

DATE_LIMIT == DateTimeNew(DateLimitDay, 0)

Min2(a, b) == IF a <= b THEN a ELSE b

Max2(a, b) == IF a >= b THEN a ELSE b

None == [some |-> FALSE]

Some(x) == [some |-> TRUE, val |-> x]

\* Option::or
OptOr(a, b) == IF a.some THEN a ELSE b

\* ------------------------------------------------- interval algebra (range.rs)

Range(s, e) == [start |-> s, end |-> e]

\* Insert a range in a sequence sorted by start, after the ranges with the
\* same start.
RECURSIVE InsertByStart(_, _)
InsertByStart(r, sorted) ==
    IF sorted = <<>> THEN <<r>>
    ELSE IF r.start < Head(sorted).start THEN <<r>> \o sorted
    ELSE <<Head(sorted)>> \o InsertByStart(r, Tail(sorted))

\* ranges.sort_unstable_by(|r1, r2| r1.start.cmp(&r2.start))
RECURSIVE SortByStart(_)
SortByStart(ranges) ==
    IF ranges = <<>> THEN <<>>
    ELSE InsertByStart(ranges[Len(ranges)],
                       SortByStart(SubSeq(ranges, 1, Len(ranges) - 1)))

\* The sweep of time_ranges_union with current.end > item.start: a range
\* that starts where the current one ends is not merged into it.
RECURSIVE UnionSweep_touching_apart(_, _)
UnionSweep_touching_apart(current, rest) ==
    IF rest = <<>> THEN <<current>>
    ELSE LET item == Head(rest)
         IN  IF current.end > item.start
             THEN UnionSweep_touching_apart(
                      IF item.end > current.end
                      THEN Range(current.start, item.end)
                      ELSE current,
                      Tail(rest))
             ELSE <<current>> \o UnionSweep_touching_apart(item, Tail(rest))

\* The sweep of time_ranges_union: `current` is current_opt, `rest` what the
\* iterator over the sorted ranges still holds.
RECURSIVE UnionSweep(_, _)
UnionSweep(current, rest) ==
    IF rest = <<>> THEN <<current>>
    ELSE LET item == Head(rest)
         IN  IF current.end >= item.start
             THEN UnionSweep(IF item.end > current.end
                             THEN Range(current.start, item.end)
                             ELSE current,
                             Tail(rest))
             ELSE <<current>> \o UnionSweep(item, Tail(rest))

\* The sweep over the ranges by increasing start.
UnionSorted(sorted) ==
    IF sorted = <<>> THEN <<>>
    ELSE UnionSweep(Head(sorted), Tail(sorted))

time_ranges_union(ranges) == UnionSorted(SortByStart(ranges))

\* range_intersection with result.start <= result.end: ranges that touch
\* have an empty range as their intersection.
range_intersection_touching_kept(range_1, range_2) ==
    LET result == Range(Max2(range_1.start, range_2.start),
                        Min2(range_1.end, range_2.end))
    IN  IF result.start <= result.end THEN Some(result) ELSE None

range_intersection(range_1, range_2) ==
    LET result == Range(Max2(range_1.start, range_2.start),
                        Min2(range_1.end, range_2.end))
    IN  IF result.start < result.end THEN Some(result) ELSE None

\* ------------------------------------------------------- rules and selectors

Kinds == {"Open", "Closed", "Unknown"}

Operators == {"Normal", "Additional", "Fallback"}

\* Every calendar date a day selector is asked about: the dates below
\* DATE_LIMIT and the date before the first of them (date.pred_opt()).
Dates == -1 .. DateLimitDay - 1

\* A day selector: the dates it accepts, and whether its implementation
\* gives next-change hints.
DaySelector(days, hinted) == [days |-> days, hinted |-> hinted]

\* A rule sequence of the expression (RuleSequence).
Rule(sel, times, kind, op, comments) ==
    [day_selector |-> sel, time_selector |-> times, kind |-> kind,
     operator |-> op, comments |-> comments]

\* day_selector.filter(date, holidays)
filter(sel, date) == date \in sel.days

\* day_selector.next_change_hint(date, holidays): no hint, or the
\* earliest later date at which the selector's answer differs from its answer
\* for `date` (the date of DATE_LIMIT when it never does).
selector_next_change_hint(sel, date) ==
    IF ~sel.hinted THEN None
    ELSE LET changes == {d \in (date + 1) .. (DateLimitDay - 1) :
                           filter(sel, d) # filter(sel, date)}
         IN  IF changes = {} THEN Some(Max2(DateLimitDay, date + 1))
             ELSE Some(CHOOSE d \in changes : \A e \in changes : d <= e)

\* The ranges of `seq` that `f` keeps, in order (Iterator::filter_map).
RECURSIVE ClipRanges(_, _)
ClipRanges(ranges, window) ==
    IF ranges = <<>> THEN <<>>
    ELSE LET r == range_intersection(Head(ranges), window)
         IN  (IF r.some THEN <<r.val>> ELSE <<>>)
             \o ClipRanges(Tail(ranges), window)

ShiftRanges(ranges, by) ==
    [i \in 1 .. Len(ranges) |->
        Range(ranges[i].start + by, ranges[i].end + by)]

\* The time selector's ranges on the date itself, clipped at 24:00.
time_selector_intervals_at(time_selector) ==
    time_ranges_union(ClipRanges(time_selector, Range(0, MinutesPerDay)))

\* What of the time selector's ranges lies past 24:00, in the next date's
\* own time coordinates.
time_selector_intervals_at_next_day(time_selector) ==
    time_ranges_union(
        ShiftRanges(ClipRanges(time_selector,
                               Range(MinutesPerDay, 2 * MinutesPerDay)),
                    0 - MinutesPerDay))

\* ------------------------------------------------------------------ schedule

TimeRange(range, kind, comments) ==
    [range |-> range, kind |-> kind, comments |-> comments]

\* Schedule::from_ranges
Schedule_from_ranges(ranges, kind, comments) ==
    [i \in 1 .. Len(ranges) |-> TimeRange(ranges[i], kind, comments)]

\* Schedule::empty
Schedule_empty == <<>>

\* Override priority of overlapping schedules: Unknown < Closed < Open.
Priority(kind) ==
    CASE kind = "Unknown" -> 0
      [] kind = "Closed" -> 1
      [] kind = "Open" -> 2

\* The sub-interval of a schedule that holds minute m, if any.
CellAt(sched, m) ==
    LET hits == {i \in 1 .. Len(sched) :
                   sched[i].range.start <= m /\ m < sched[i].range.end}
    IN  IF hits = {} THEN None ELSE Some(sched[CHOOSE i \in hits : TRUE])

\* The overlay of two schedules at a minute that `ca` of the one and `cb` of
\* the other hold (or not): the higher-priority state where both hold it, with
\* the comments of both.
Overlay(ca, cb) ==
    IF ca.some /\ cb.some
    THEN Some([kind |-> IF Priority(cb.val.kind) > Priority(ca.val.kind)
                        THEN cb.val.kind ELSE ca.val.kind,
               comments |-> ca.val.comments \cup cb.val.comments])
    ELSE IF ca.some
    THEN Some([kind |-> ca.val.kind, comments |-> ca.val.comments])
    ELSE IF cb.some
    THEN Some([kind |-> cb.val.kind, comments |-> cb.val.comments])
    ELSE None

AddCell(a, b, m) == Overlay(CellAt(a, m), CellAt(b, m))

\* Minute m, of state and comments c, appended to the sub-intervals `acc`: it
\* joins the last one when that one ends at m with the same state and
\* comments.
AppendCell(acc, m, c) ==
    IF ~c.some THEN acc
    ELSE IF Len(acc) > 0 /\ acc[Len(acc)].range.end = m
            /\ acc[Len(acc)].kind = c.val.kind
            /\ acc[Len(acc)].comments = c.val.comments
    THEN [acc EXCEPT ![Len(acc)].range.end = m + 1]
    ELSE Append(acc, TimeRange(Range(m, m + 1), c.val.kind, c.val.comments))

\* The minutes m .. 24:00 of the overlay of a and b appended to `acc`.
RECURSIVE AdditionFrom(_, _, _, _)
AdditionFrom(a, b, m, acc) ==
    IF m >= MinutesPerDay THEN acc
    ELSE AdditionFrom(a, b, m + 1, AppendCell(acc, m, AddCell(a, b, m)))

\* Schedule::addition
addition(a, b) == AdditionFrom(a, b, 0, <<>>)

\* The sub-intervals from index i on, each preceded by a Closed run without
\* comments over the gap (if any) since `pos`, and a last such run to 24:00.
RECURSIVE FilledFrom(_, _, _)
FilledFrom(sched, i, pos) ==
    IF i > Len(sched)
    THEN IF pos < MinutesPerDay
         THEN <<TimeRange(Range(pos, MinutesPerDay), "Closed", {})>>
         ELSE <<>>
    ELSE (IF pos < sched[i].range.start
          THEN <<TimeRange(Range(pos, sched[i].range.start), "Closed", {})>>
          ELSE <<>>)
         \o <<sched[i]>> \o FilledFrom(sched, i + 1, sched[i].range.end)

\* Schedule::into_iter_filled
into_iter_filled(sched) == FilledFrom(sched, 1, 0)

\* ------------------------------------------- per-day combiner (opening_hours.rs)

\* The `match (from_today, from_yesterday)` of rule_sequence_schedule_at with
\* today.or(yesterday) in both arms: the spill-over is dropped when the date
\* itself matches.
today_or_yesterday(from_today, from_yesterday) ==
    OptOr(from_today, from_yesterday)

\* The `match (from_today, from_yesterday)` of rule_sequence_schedule_at with
\* the two schedules chained instead of added: the sub-intervals of the date
\* itself are followed by those of the spill-over.
today_then_yesterday(from_today, from_yesterday) ==
    IF from_today.some /\ from_yesterday.some
    THEN Some(from_today.val \o from_yesterday.val)
    ELSE OptOr(from_today, from_yesterday)

\* The `match (from_today, from_yesterday)` of rule_sequence_schedule_at.
today_and_yesterday(from_today, from_yesterday) ==
    IF from_today.some /\ from_yesterday.some
    THEN Some(addition(from_today.val, from_yesterday.val))
    ELSE OptOr(from_today, from_yesterday)

rule_sequence_schedule_at(rule_sequence, date) ==
    LET from_today ==
            IF filter(rule_sequence.day_selector, date)
            THEN Some(Schedule_from_ranges(
                     time_selector_intervals_at(rule_sequence.time_selector),
                     rule_sequence.kind, rule_sequence.comments))
            ELSE None
        from_yesterday ==
            IF filter(rule_sequence.day_selector, date - 1)
            THEN Some(Schedule_from_ranges(
                     time_selector_intervals_at_next_day(
                         rule_sequence.time_selector),
                     rule_sequence.kind, rule_sequence.comments))
            ELSE None
    IN  today_and_yesterday(from_today, from_yesterday)

\* The accumulated (prev_match, prev_eval) of schedule_at.
Acc(match, eval) == [match |-> match, eval |-> eval]

\* The `match rules_seq.operator` of schedule_at with the Fallback arm
\* keeping the accumulated pair only if the rule does not match: a matching
\* Fallback rule takes over.
new_match_eval_fallback_takes_over(operator, prev_match, prev_eval, curr_match, curr_eval) ==
    CASE operator = "Normal" ->
           Acc(curr_match \/ prev_match,
               IF curr_match THEN curr_eval ELSE OptOr(prev_eval, curr_eval))
      [] operator = "Additional" ->
           Acc(prev_match \/ curr_match,
               IF prev_eval.some /\ curr_eval.some
               THEN Some(addition(prev_eval.val, curr_eval.val))
               ELSE OptOr(prev_eval, curr_eval))
      [] operator = "Fallback" ->
           IF prev_match /\ ~curr_match THEN Acc(prev_match, prev_eval)
           ELSE Acc(curr_match, curr_eval)

\* The `match rules_seq.operator` of schedule_at with curr_eval.or(prev_eval)
\* in the Normal arm: a non-matching rule's spill-over goes before the
\* accumulated schedule.
new_match_eval_normal_current_first(operator, prev_match, prev_eval, curr_match, curr_eval) ==
    CASE operator = "Normal" ->
           Acc(curr_match \/ prev_match,
               IF curr_match THEN curr_eval ELSE OptOr(curr_eval, prev_eval))
      [] operator = "Additional" ->
           Acc(prev_match \/ curr_match,
               IF prev_eval.some /\ curr_eval.some
               THEN Some(addition(prev_eval.val, curr_eval.val))
               ELSE OptOr(prev_eval, curr_eval))
      [] operator = "Fallback" ->
           IF prev_match THEN Acc(prev_match, prev_eval)
           ELSE Acc(curr_match, curr_eval)

\* The `match rules_seq.operator` of schedule_at with curr_eval.or(prev_eval)
\* for every pair in the Additional arm: the rule's schedule is not added to
\* the accumulated one, it takes its place.
new_match_eval_additional_without_addition(operator, prev_match, prev_eval, curr_match, curr_eval) ==
    CASE operator = "Normal" ->
           Acc(curr_match \/ prev_match,
               IF curr_match THEN curr_eval ELSE OptOr(prev_eval, curr_eval))
      [] operator = "Additional" ->
           Acc(prev_match \/ curr_match, OptOr(curr_eval, prev_eval))
      [] operator = "Fallback" ->
           IF prev_match THEN Acc(prev_match, prev_eval)
           ELSE Acc(curr_match, curr_eval)

\* The `match rules_seq.operator` of schedule_at: (new_match, new_eval).
new_match_eval(operator, prev_match, prev_eval, curr_match, curr_eval) ==
    CASE operator = "Normal" ->
           Acc(curr_match \/ prev_match,
               IF curr_match THEN curr_eval ELSE OptOr(prev_eval, curr_eval))
      [] operator = "Additional" ->
           Acc(prev_match \/ curr_match,
               IF prev_eval.some /\ curr_eval.some
               THEN Some(addition(prev_eval.val, curr_eval.val))
               ELSE OptOr(prev_eval, curr_eval))
      [] operator = "Fallback" ->
           IF prev_match THEN Acc(prev_match, prev_eval)
           ELSE Acc(curr_match, curr_eval)

\* One turn of the loop of schedule_at: the accumulated pair after
\* rules_seq, from the pair before it.
schedule_at_rule(rules_seq, date, prev) ==
    new_match_eval(rules_seq.operator, prev.match, prev.eval,
                   filter(rules_seq.day_selector, date),
                   rule_sequence_schedule_at(rules_seq, date))

\* The accumulated pair before the loop and after each of its turns.
RECURSIVE schedule_at_loop(_, _, _, _)
schedule_at_loop(rs, date, i, accs) ==
    IF i > Len(rs) THEN accs
    ELSE schedule_at_loop(rs, date, i + 1,
             Append(accs, schedule_at_rule(rs[i], date, accs[Len(accs)])))

schedule_at_accs(rs, date) ==
    schedule_at_loop(rs, date, 1, <<Acc(FALSE, None)>>)

\* prev_eval.unwrap_or_else(Schedule::empty), prev_eval being the last of accs.
unwrap_or_empty(accs) ==
    IF accs[Len(accs)].eval.some THEN accs[Len(accs)].eval.val
    ELSE Schedule_empty

schedule_at(rs, date) == unwrap_or_empty(schedule_at_accs(rs, date))

\* --------------------------------------------------------- timeline iterator

\* Option<NaiveDate> ordering of Iterator::min: None is below every Some.
OptLess(a, b) == IF ~a.some THEN b.some ELSE b.some /\ a.val < b.val

\* The least of the hints that are given, None when none is: the rules that
\* give no hint are left out.
MinHint_of_those_given(hints) ==
    IF \A h \in hints : ~h.some THEN None
    ELSE CHOOSE h \in hints :
             h.some /\ \A g \in hints : g.some => h.val <= g.val

\* Iterator::min followed by Option::flatten: the least of the hints, None
\* when one of them is None or there is none.
MinHint(hints) ==
    IF hints = {} THEN None
    ELSE CHOOSE h \in hints : \A g \in hints : ~OptLess(g, h)

\* OpeningHours::next_change_hint
next_change_hint(rs, date) ==
    MinHint({selector_next_change_hint(rs[i].day_selector, date) :
               i \in 1 .. Len(rs)})

\* The fields of a TimeDomainIterator; curr_schedule is what the peekable
\* cursor still holds, its head being the peeked sub-interval.
TimeDomainIterator(curr_date, curr_schedule, end_datetime) ==
    [curr_date |-> curr_date, curr_schedule |-> curr_schedule,
     end_datetime |-> end_datetime]

\* The loop of TimeDomainIterator::new taking a sub-interval to contain the
\* time it ends at: it stops one sub-interval early when start_time is where
\* two sub-intervals meet.
RECURSIVE SkipUntilContains_end_included(_, _)
SkipUntilContains_end_included(curr_schedule, start_time) ==
    IF curr_schedule # <<>>
       /\ ~(Head(curr_schedule).range.start <= start_time
            /\ start_time <= Head(curr_schedule).range.end)
    THEN SkipUntilContains_end_included(Tail(curr_schedule), start_time)
    ELSE curr_schedule

\* The loop of TimeDomainIterator::new that drops the leading sub-intervals
\* that do not contain start_time.
RECURSIVE SkipUntilContains(_, _)
SkipUntilContains(curr_schedule, start_time) ==
    IF curr_schedule # <<>>
       /\ ~(Head(curr_schedule).range.start <= start_time
            /\ start_time < Head(curr_schedule).range.end)
    THEN SkipUntilContains(Tail(curr_schedule), start_time)
    ELSE curr_schedule

TimeDomainIterator_new(rs, start_datetime, end_datetime) ==
    LET start_date == DateOf(start_datetime)
        start_time == ExtendedTimeOf(start_datetime)
        curr_schedule ==
            IF start_datetime < end_datetime
            THEN into_iter_filled(schedule_at(rs, start_date))
            ELSE <<>>
    IN  TimeDomainIterator(start_date,
                           SkipUntilContains(curr_schedule, start_time),
                           end_datetime)

\* Option::unwrap_or_else
UnwrapOr(opt, default) == IF opt.some THEN opt.val ELSE default

\* The date the iterator moves to when the day's cursor is exhausted.
next_date(rs, curr_date) ==
    UnwrapOr(next_change_hint(rs, curr_date), curr_date + 1)

\* install_date with curr_date <= end_datetime.date(): the schedule of the
\* date of end_datetime is installed too.
install_date_through_end_date(rs, it, date) ==
    [it EXCEPT !.curr_date = date,
               !.curr_schedule =
                   IF date <= DateOf(it.end_datetime)
                   THEN into_iter_filled(schedule_at(rs, date))
                   ELSE <<>>]

\* The iterator moved to `date`, with that date's filled schedule if the
\* date is before the date of end_datetime and an empty cursor otherwise.
install_date(rs, it, date) ==
    [it EXCEPT !.curr_date = date,
               !.curr_schedule =
                   IF date < DateOf(it.end_datetime)
                   THEN into_iter_filled(schedule_at(rs, date))
                   ELSE <<>>]

\* One turn of the loop of consume_until_next_kind: the cursor moves past its
\* head and, when it is then empty, the iterator moves to the next date.
consume_one(rs, it) ==
    IF Tail(it.curr_schedule) # <<>>
    THEN [it EXCEPT !.curr_schedule = Tail(it.curr_schedule)]
    ELSE install_date(rs, it, next_date(rs, it.curr_date))

\* consume_until_next_kind that stops when the day's cursor is exhausted: the
\* next date is installed but its sub-intervals of the same kind are not
\* consumed.
RECURSIVE consume_within_day(_, _, _)
consume_within_day(rs, it, curr_kind) ==
    IF it.curr_schedule # <<>> /\ Head(it.curr_schedule).kind = curr_kind
    THEN IF Tail(it.curr_schedule) # <<>>
         THEN consume_within_day(rs, consume_one(rs, it), curr_kind)
         ELSE consume_one(rs, it)
    ELSE it

RECURSIVE consume_until_next_kind(_, _, _)
consume_until_next_kind(rs, it, curr_kind) ==
    IF it.curr_schedule # <<>> /\ Head(it.curr_schedule).kind = curr_kind
    THEN consume_until_next_kind(rs, consume_one(rs, it), curr_kind)
    ELSE it

DateTimeRange(start, end, kind, comments) ==
    [start |-> start, end |-> end, kind |-> kind, comments |-> comments]

\* The time the emitted interval ends at on the current date: the start of the
\* peeked sub-interval, or 00:00.
end_time(it) ==
    IF it.curr_schedule # <<>> THEN Head(it.curr_schedule).range.start ELSE 0

\* What TimeDomainIterator::next returns, curr_tr being the sub-interval it
\* peeked and `after` the iterator after consume_until_next_kind.
next_item(curr_date, curr_tr, after) ==
    [item |-> Some(DateTimeRange(
                  DateTimeNew(curr_date, curr_tr.range.start),
                  Min2(after.end_datetime,
                       DateTimeNew(after.curr_date, end_time(after))),
                  curr_tr.kind, curr_tr.comments)),
     it |-> after]

\* TimeDomainIterator::next: the item it returns and the iterator after.
TimeDomainIterator_next(rs, it) ==
    IF it.curr_schedule # <<>>
    THEN next_item(it.curr_date, Head(it.curr_schedule),
                   consume_until_next_kind(rs, it,
                                           Head(it.curr_schedule).kind))
    ELSE [item |-> None, it |-> it]

\* ------------------------------------------------------------- query facade

\* What iter_range and intervals return on success: the TimeDomainIterator
\* under its take_while / map adaptors, one [from, to] pair per adaptor pair,
\* innermost first; `ended` once a take_while has refused an item.
Adapted(it, clips) == [it |-> it, clips |-> clips, ended |-> FALSE]

Err(t) == [ok |-> FALSE, err |-> "DateLimitExceeded", at |-> t]

Ok(v) == [ok |-> TRUE, val |-> v]

\* iter_range refusing a `to` equal to DATE_LIMIT as well.
iter_range_to_at_limit_refused(rs, from, to) ==
    IF from >= DATE_LIMIT THEN Err(from)
    ELSE IF to >= DATE_LIMIT THEN Err(to)
    ELSE Ok(Adapted(TimeDomainIterator_new(rs, from, to),
                    <<[from |-> from, to |-> to]>>))

iter_range(rs, from, to) ==
    IF from >= DATE_LIMIT THEN Err(from)
    ELSE IF to > DATE_LIMIT THEN Err(to)
    ELSE Ok(Adapted(TimeDomainIterator_new(rs, from, to),
                    <<[from |-> from, to |-> to]>>))

iter_from(rs, from) == iter_range(rs, from, DATE_LIMIT)

\* The take_while / map of intervals around what iter_from returned.
intervals_of(inner, from, to) ==
    IF ~inner.ok THEN inner
    ELSE Ok([inner.val EXCEPT
               !.clips = Append(@, [from |-> from, to |-> to])])

intervals(rs, from, to) == intervals_of(iter_from(rs, from), from, to)

\* The adaptors without their take_while: every item is clipped and kept.
RECURSIVE ClipThrough_no_take_while(_, _, _)
ClipThrough_no_take_while(dtr, clips, i) ==
    IF i > Len(clips) THEN Some(dtr)
    ELSE ClipThrough_no_take_while(
             [dtr EXCEPT !.start = Max2(dtr.start, clips[i].from),
                         !.end = Min2(dtr.end, clips[i].to)],
             clips, i + 1)

\* An item through the adaptor pairs from index i on: None when a take_while
\* refuses it, else the item clipped by each map.
RECURSIVE ClipThrough(_, _, _)
ClipThrough(dtr, clips, i) ==
    IF i > Len(clips) THEN Some(dtr)
    ELSE IF ~(dtr.start < clips[i].to) THEN None
    ELSE ClipThrough([dtr EXCEPT !.start = Max2(dtr.start, clips[i].from),
                                 !.end = Min2(dtr.end, clips[i].to)],
                     clips, i + 1)

\* The adaptors applied to what the TimeDomainIterator returned.
Adapted_item(r, clips) ==
    IF r.item.some THEN ClipThrough(r.item.val, clips, 1) ELSE None

\* What next() of the adapted iterator returns when the TimeDomainIterator
\* returned r and the adaptors made `clipped` of it.
Adapted_result(ad, r, clipped) ==
    [item |-> clipped,
     ad |-> [ad EXCEPT !.it = r.it,
                       !.ended = r.item.some /\ ~clipped.some]]

Adapted_pull(ad, r) == Adapted_result(ad, r, Adapted_item(r, ad.clips))

\* next() of the adapted iterator: the item and the iterator after.
Adapted_next(rs, ad) ==
    IF ad.ended THEN [item |-> None, ad |-> ad]
    ELSE Adapted_pull(ad, TimeDomainIterator_next(rs, ad.it))

\* Every item of an adapted iterator, pulled until it returns nothing; r is
\* what the last pull returned.
RECURSIVE CollectFrom(_, _)
CollectFrom(rs, r) ==
    IF r.item.some
    THEN <<r.item.val>> \o CollectFrom(rs, Adapted_next(rs, r.ad))
    ELSE <<>>

Collect(rs, ad) == CollectFrom(rs, Adapted_next(rs, ad))

\* .next().map(|dtr| dtr.range.end).unwrap_or(*DATE_LIMIT)
first_end_or_limit(first) ==
    IF first.some THEN first.val.end ELSE DATE_LIMIT

\* .next().map(|dtr| dtr.kind).unwrap_or(RuleKind::Unknown)
first_kind_or_unknown(first) ==
    IF first.some THEN first.val.kind ELSE "Unknown"

next_change_of(rs, iter) ==
    IF ~iter.ok THEN iter
    ELSE Ok(first_end_or_limit(Adapted_next(rs, iter.val).item))

next_change(rs, current_time) ==
    next_change_of(rs, iter_from(rs, current_time))

state_of(rs, iter) ==
    IF ~iter.ok THEN iter
    ELSE Ok(first_kind_or_unknown(Adapted_next(rs, iter.val).item))

state(rs, current_time) ==
    state_of(rs, iter_range(rs, current_time, current_time + TicksPerMinute))

is_open(rs, current_time) == state(rs, current_time) = Ok("Open")

is_closed(rs, current_time) == state(rs, current_time) = Ok("Closed")

\* matches!(_, Ok(RuleKind::Unknown)) alone.
matches_unknown(st) == st = Ok("Unknown")

\* matches!(_, Err(Error::DateLimitExceeded(_)) | Ok(RuleKind::Unknown))
matches_error_or_unknown(st) ==
    (~st.ok /\ st.err = "DateLimitExceeded") \/ st = Ok("Unknown")

\* is_unknown matching Ok(Unknown) only.
is_unknown_without_error_arm(rs, current_time) ==
    matches_unknown(state(rs, current_time))

is_unknown(rs, current_time) ==
    matches_error_or_unknown(state(rs, current_time))

\* ------------------------------------------------------- evaluation context

\* The characters of the region codes given to with_region.
RegionChars == {"f", "F", "r", "R"}

\* char::to_uppercase on these characters.
UpperChar(c) ==
    CASE c = "f" -> "F"
      [] c = "r" -> "R"
      [] OTHER -> c

\* str::to_uppercase
to_uppercase(region) == [i \in 1 .. Len(region) |-> UpperChar(region[i])]

EMPTY_CALENDAR == "no holidays"

\* REGION_HOLIDAYS: the calendar of each region of HOLIDAYS_REGIONS, two
\* regions here, their codes in upper case.
REGION_HOLIDAYS ==
    [key \in {<<"F", "R">>, <<"R", "F">>} |->
        IF key = <<"F", "R">> THEN "holidays of FR" ELSE "holidays of RF"]

\* HashMap::get
HashMap_get(map, key) ==
    IF key \in DOMAIN map THEN Some(map[key]) ELSE None

Context(holidays, localize) == [holidays |-> holidays, localize |-> localize]

\* Context::default
Context_default == Context(EMPTY_CALENDAR, "NoLocation")

\* An OpeningHours value.
OpeningHours(rs, context) == [rules |-> rs, ctx |-> context]

RegionNotFound(region) ==
    [ok |-> FALSE, err |-> "RegionNotFound", at |-> region]

\* What with_region does once the region has been looked up: `result` is what
\* it returns and `self` the value it was given as it is at the return.
with_region_found(self, region, found) ==
    IF found.some
    THEN [result |-> Ok([self EXCEPT !.ctx.holidays = found.val]),
          self |-> [self EXCEPT !.ctx.holidays = found.val]]
    ELSE [result |-> RegionNotFound(region), self |-> self]

\* with_region loading no holidays when the region is not found.
with_region_resets_on_failure(self, region) ==
    with_region_found(
        IF to_uppercase(region) \in DOMAIN REGION_HOLIDAYS THEN self
        ELSE [self EXCEPT !.ctx.holidays = EMPTY_CALENDAR],
        region, HashMap_get(REGION_HOLIDAYS, to_uppercase(region)))

with_region(self, region) ==
    with_region_found(self, region,
                      HashMap_get(REGION_HOLIDAYS, to_uppercase(region)))

\* OpeningHours::holidays
holidays(self) == self.ctx.holidays

\* ------------------------------------------------------------- state machine

VARIABLES
    rules,      \* OpeningHours::rules, fixed when the expression is parsed
    ctx,        \* OpeningHours::ctx, the evaluation context
    call,       \* the facade operation called and its arguments
    status,     \* "idle", "iterating", "exhausted", "error" or "returned"
    iter,       \* the iterator a successful iter_range / intervals returned
    out,        \* the Dated Intervals the iterator has yielded so far
    value,      \* what a call that returns no iterator returned
    accs        \* schedule_at: (prev_match, prev_eval) before and after each rule

vars == <<rules, ctx, call, status, iter, out, value, accs>>

NoCall == [op |-> "none"]

NoIter == Adapted(TimeDomainIterator(0, <<>>, 0), <<>>)

NoValue == [ok |-> TRUE, val |-> "none"]

\* Instants given to the facade: every instant below DATE_LIMIT, DATE_LIMIT
\* itself and the instants of the minute after it.
Instants == 0 .. DATE_LIMIT + TicksPerMinute

\* Day selectors of the expressions iterated over: one that accepts every
\* date and gives no hint, one that accepts the dates from 0 to two days
\* before DATE_LIMIT and gives hints, and one that accepts the dates from 0 to
\* DATE_LIMIT and gives hints, later ones than the second.
IterSelectors ==
    {DaySelector(Dates, FALSE), DaySelector(0 .. DateLimitDay - 2, TRUE),
     DaySelector(0 .. DateLimitDay - 1, TRUE)}

\* Their time selectors, each with the kind, operator and comments of its
\* rule: Open on the first minute of the day, and Unknown from the last minute
\* of the day to the end of the first minute of the next date.
IterTimes ==
    {<<<<Range(0, 1)>>, "Open", "Normal", {}>>,
     <<<<Range(MinutesPerDay - 1, MinutesPerDay + 1)>>,
       "Unknown", "Additional", {"c"}>>}

IterRules ==
    {Rule(sel, t[1], t[2], t[3], t[4]) :
        sel \in IterSelectors, t \in IterTimes}

SeqsUpTo(S, n) == UNION {[1 .. k -> S] : k \in 0 .. n}

Init ==
    /\ rules \in SeqsUpTo(IterRules, MaxRules)
    /\ ctx = Context_default
    /\ call = NoCall
    /\ status = "idle"
    /\ iter = NoIter
    /\ out = <<>>
    /\ value = NoValue
    /\ accs = <<>>

\* The call returned `res`: an iterator to pull from, or an error.
ReturnIterator(res) ==
    /\ status' = IF res.ok THEN "iterating" ELSE "error"
    /\ iter' = IF res.ok THEN res.val ELSE NoIter
    /\ value' = IF res.ok THEN NoValue ELSE res
    /\ UNCHANGED <<rules, ctx, out, accs>>

Call_iter_range ==
    \E from \in Instants, to \in Instants :
        /\ status = "idle"
        /\ call' = [op |-> "iter_range", from |-> from, to |-> to]
        /\ ReturnIterator(iter_range(rules, from, to))

Call_iter_from ==
    \E from \in Instants :
        /\ status = "idle"
        /\ call' = [op |-> "iter_from", from |-> from, to |-> DATE_LIMIT]
        /\ ReturnIterator(iter_from(rules, from))

Call_intervals ==
    \E from \in Instants, to \in Instants :
        /\ status = "idle"
        /\ call' = [op |-> "intervals", from |-> from, to |-> to]
        /\ ReturnIterator(intervals(rules, from, to))

\* The iterator returned r to the caller.
Yield(r) ==
    /\ iter' = r.ad
    /\ out' = IF r.item.some THEN Append(out, r.item.val) ELSE out
    /\ status' = IF r.item.some THEN "iterating" ELSE "exhausted"
    /\ UNCHANGED <<rules, ctx, call, value, accs>>

\* The caller pulls the next item from the iterator it holds.
Iter_next ==
    /\ status = "iterating"
    /\ Yield(Adapted_next(rules, iter))

\* A call that returns a value.
ReturnValue(op, t, res) ==
    /\ status = "idle"
    /\ call' = [op |-> op, from |-> t]
    /\ status' = "returned"
    /\ value' = res
    /\ UNCHANGED <<rules, ctx, iter, out, accs>>

Call_next_change ==
    \E t \in Instants : ReturnValue("next_change", t, next_change(rules, t))

Call_state ==
    \E t \in Instants : ReturnValue("state", t, state(rules, t))

Call_is_open ==
    \E t \in Instants : ReturnValue("is_open", t, Ok(is_open(rules, t)))

Call_is_closed ==
    \E t \in Instants : ReturnValue("is_closed", t, Ok(is_closed(rules, t)))

Call_is_unknown ==
    \E t \in Instants : ReturnValue("is_unknown", t, Ok(is_unknown(rules, t)))

Next ==
    \/ Call_iter_range
    \/ Call_iter_from
    \/ Call_intervals
    \/ Iter_next
    \/ Call_next_change
    \/ Call_state
    \/ Call_is_open
    \/ Call_is_closed
    \/ Call_is_unknown

Spec == Init /\ [][Next]_vars

\* ------------------------------------------- state machine of schedule_at

\* Day selectors of the expressions schedule_at is asked about: with the
\* dates asked, a rule accepts the date or not, and the date before or not,
\* in all four ways.
ScheduleSelectors == {DaySelector({0}, FALSE), DaySelector({0, 1}, FALSE)}

\* Their time selectors: the first minute of the day, a range from the
\* last minute of the day to the end of the first minute of the next date,
\* and two overlapping spans, the second of which runs past 24:00.
ScheduleTimes ==
    {<<Range(0, 1)>>, <<Range(MinutesPerDay - 1, MinutesPerDay + 1)>>,
     <<Range(0, MinutesPerDay), Range(1, MinutesPerDay + 1)>>}

\* The comment of a rule names its operator, so that a sub-interval shows
\* the operators of the rules it comes from.
ScheduleRules ==
    {Rule(sel, times, kind, op, {op}) :
        sel \in ScheduleSelectors, times \in ScheduleTimes,
        kind \in Kinds, op \in Operators}

\* The dates schedule_at is asked about.
ScheduleDates == 0 .. DateLimitDay - 1

InitSchedule ==
    /\ rules \in SeqsUpTo(ScheduleRules, MaxRules)
    /\ ctx = Context_default
    /\ call = NoCall
    /\ status = "idle"
    /\ iter = NoIter
    /\ out = <<>>
    /\ value = NoValue
    /\ accs = <<>>

Call_schedule_at ==
    \E date \in ScheduleDates :
        /\ status = "idle"
        /\ call' = [op |-> "schedule_at", from |-> date]
        /\ accs' = schedule_at_accs(rules, date)
        /\ value' = Ok(schedule_at(rules, date))
        /\ status' = "returned"
        /\ UNCHANGED <<rules, ctx, iter, out>>

NextSchedule == Call_schedule_at

SpecSchedule == InitSchedule /\ [][NextSchedule]_vars

\* ------------------------------------------- state machine of with_region

\* The region codes given to with_region: every string of one to
\* MaxRegionLen of the characters.
RegionCodes == UNION {[1 .. n -> RegionChars] : n \in 1 .. MaxRegionLen}

InitRegion ==
    /\ rules \in SeqsUpTo(IterRules, MaxRules)
    /\ ctx = Context_default
    /\ call = NoCall
    /\ status = "idle"
    /\ iter = NoIter
    /\ out = <<>>
    /\ value = NoValue
    /\ accs = <<>>

\* with_region returned r.  It takes the OpeningHours by value: after an
\* error there is no value to call anything on, and rules and ctx are its
\* fields as they were at the return.
ReturnSelf(r) ==
    /\ rules' = r.self.rules
    /\ ctx' = r.self.ctx
    /\ status' = IF r.result.ok THEN "idle" ELSE "error"
    /\ value' = IF r.result.ok THEN NoValue ELSE r.result
    /\ UNCHANGED <<iter, out, accs>>

Call_with_region ==
    \E region \in RegionCodes :
        /\ status = "idle"
        /\ call' = [op |-> "with_region", region |-> region,
                    self |-> OpeningHours(rules, ctx)]
        /\ ReturnSelf(with_region(OpeningHours(rules, ctx), region))

Call_holidays ==
    /\ status = "idle"
    /\ call' = [op |-> "holidays"]
    /\ value' = Ok(holidays(OpeningHours(rules, ctx)))
    /\ UNCHANGED <<rules, ctx, status, iter, out, accs>>

NextRegion ==
    \/ Call_with_region
    \/ Call_holidays

SpecRegion == InitRegion /\ [][NextRegion]_vars

\* --------------------------------------- state machine of the interval algebra

\* Every range with bounds in 0 .. MaxPoint, and those with start <= end.
AllRanges == {Range(s, e) : s \in 0 .. MaxPoint, e \in 0 .. MaxPoint}

OrderedRanges == {r \in AllRanges : r.start <= r.end}

\* The calls to make: time_ranges_union over up to MaxRanges ranges, and
\* range_intersection(a, b) with a third range c at hand.
RangeCalls ==
    {[op |-> "time_ranges_union", ranges |-> ranges] :
        ranges \in SeqsUpTo(OrderedRanges, MaxRanges)}
    \cup {[op |-> "range_intersection", a |-> a, b |-> b, c |-> c] :
             a \in AllRanges, b \in AllRanges, c \in AllRanges}

\* The arguments of the call are drawn; the call is still to be made.
InitRange ==
    /\ rules = <<>>
    /\ ctx = Context_default
    /\ call \in RangeCalls
    /\ status = "idle"
    /\ iter = NoIter
    /\ out = <<>>
    /\ value = NoValue
    /\ accs = <<>>

\* time_ranges_union over the ranges, its output collected.
Call_time_ranges_union ==
    /\ status = "idle"
    /\ call.op = "time_ranges_union"
    /\ value' = Ok(time_ranges_union(call.ranges))
    /\ status' = "returned"
    /\ UNCHANGED <<rules, ctx, call, iter, out, accs>>

Call_range_intersection ==
    /\ status = "idle"
    /\ call.op = "range_intersection"
    /\ value' = Ok(range_intersection(call.a, call.b))
    /\ status' = "returned"
    /\ UNCHANGED <<rules, ctx, call, iter, out, accs>>

NextRange ==
    \/ Call_time_ranges_union
    \/ Call_range_intersection

SpecRange == InitRange /\ [][NextRange]_vars

\* ==================================================================== claims

IterCalls == {"iter_range", "iter_from", "intervals"}

\* ------------------------------------------------------------------------ C1
\* C1: for from < to < DATE_LIMIT, the Dated Intervals yielded by
\* iter_range(from, to) are strictly increasing by start, each ends no later
\* than the next one starts, and no two consecutive ones have the same kind.
C1_SortedDisjointAlternating ==
    (call.op = "iter_range" /\ call.from < call.to /\ call.to < DATE_LIMIT)
    => \A i \in 1 .. Len(out) - 1 :
          /\ out[i].start < out[i + 1].start
          /\ out[i].end <= out[i + 1].start
          /\ out[i].kind # out[i + 1].kind

\* An iter_range below DATE_LIMIT that has yielded three intervals.
C1_Witness ==
    /\ call.op = "iter_range"
    /\ call.from < call.to /\ call.to < DATE_LIMIT
    /\ Len(out) >= 3

\* ------------------------------------------------------------------------ C8
\* C8 as stated: iter_range(from, to) fails with the date-limit-exceeded
\* condition exactly when from or to is at or after DATE_LIMIT.
C8_FailsAtOrAfterLimit ==
    call.op = "iter_range"
    => ((status = "error")
        <=> (call.from >= DATE_LIMIT \/ call.to >= DATE_LIMIT))

\* C8 amended: iter_range(from, to) fails with the date-limit-exceeded
\* condition exactly when from is at or after DATE_LIMIT or to is after it;
\* a `to` equal to DATE_LIMIT is accepted, which is what iter_from passes.
C8_FailsFromAtLimitOrToAfterLimit ==
    /\ call.op = "iter_range"
       => /\ (status = "error")
             <=> (call.from >= DATE_LIMIT \/ call.to > DATE_LIMIT)
          /\ status = "error"
             => value = Err(IF call.from >= DATE_LIMIT
                            THEN call.from ELSE call.to)
    /\ call.op = "iter_from"
       => ((status = "error") <=> call.from >= DATE_LIMIT)

\* An iter_range up to DATE_LIMIT itself that has yielded an interval.
C8_Witness ==
    /\ call.op = "iter_range"
    /\ call.from < DATE_LIMIT /\ call.to = DATE_LIMIT
    /\ status = "exhausted" /\ Len(out) > 0

\* ------------------------------------------------------------------------ C9
\* Exactly one of the three answers is true, and it is is_unknown's for an
\* instant at or after DATE_LIMIT.
OneOfThree(t, o, c, u) ==
    /\ (o /\ ~c /\ ~u) \/ (~o /\ c /\ ~u) \/ (~o /\ ~c /\ u)
    /\ t >= DATE_LIMIT => (u /\ ~o /\ ~c)

\* C9: at or after DATE_LIMIT is_unknown is true and is_open and is_closed
\* are false; at every instant exactly one of the three is true.
C9_ExactlyOneOfOpenClosedUnknown ==
    /\ (call.op \in {"is_open", "is_closed", "is_unknown"})
       => OneOfThree(call.from, is_open(rules, call.from),
                     is_closed(rules, call.from),
                     is_unknown(rules, call.from))
    /\ call.op = "is_open" => value = Ok(is_open(rules, call.from))
    /\ call.op = "is_closed" => value = Ok(is_closed(rules, call.from))
    /\ call.op = "is_unknown" => value = Ok(is_unknown(rules, call.from))

\* is_unknown has answered true for an instant at or after DATE_LIMIT.
C9_Witness ==
    /\ call.op = "is_unknown"
    /\ call.from >= DATE_LIMIT
    /\ value = Ok(TRUE)

\* ----------------------------------------------------------------------- C10
\* C10: every Dated Interval yielded by iter_range, iter_from or intervals,
\* whatever the arguments of a call that succeeds, has start < end.
C10_StartBeforeEnd ==
    call.op \in IterCalls
    => \A i \in 1 .. Len(out) : out[i].start < out[i].end

\* intervals has yielded two intervals up to a `to` that is not on a minute.
C10_Witness ==
    /\ call.op = "intervals"
    /\ Len(out) >= 2
    /\ call.to % TicksPerMinute # 0

\* An iterator with from >= to has been pulled and has yielded nothing.
C10_WitnessEmpty ==
    /\ call.op \in IterCalls
    /\ call.from >= call.to
    /\ status = "exhausted" /\ out = <<>>

\* ------------------------------------------------------------------------ C2
\* Whether state answers at u with a kind other than its answer st.
AnswersOtherThan(st, at_u) == at_u.ok /\ at_u # st

\* The instants after t and below DATE_LIMIT at which state answers with a
\* kind other than the one it answers at t.
StateChangesAfter(rs, t) ==
    {u \in (t + 1) .. (DATE_LIMIT - 1) :
        AnswersOtherThan(state(rs, t), state(rs, u))}

\* The earliest of the instants, DATE_LIMIT when there is none.
EarliestOrLimit(changes) ==
    IF changes = {} THEN DATE_LIMIT
    ELSE CHOOSE u \in changes : \A v \in changes : u <= v

\* C2: for t below DATE_LIMIT, next_change(t) is the earliest instant u > t at
\* which state(u) differs from state(t), and is DATE_LIMIT exactly when there
\* is no such instant.  Stated for the instants t at which state answers.
C2_NextChangeIsEarliestChange ==
    (call.op = "next_change" /\ call.from + TicksPerMinute <= DATE_LIMIT)
    => value = Ok(EarliestOrLimit(StateChangesAfter(rules, call.from)))

\* ------------------------------------------------------------------------ C3
\* The rules with every day selector giving no hint.
WithoutHints(rs) ==
    [i \in 1 .. Len(rs) |->
        [rs[i] EXCEPT !.day_selector.hinted = FALSE]]

\* C3: for from < to <= DATE_LIMIT, iter_range(from, to) yields the same
\* Dated Intervals with the day selectors' hints as with no hint at all.
C3_HintsDoNotChangeOutput ==
    (call.op = "iter_range" /\ status = "exhausted"
     /\ call.from < call.to /\ call.to <= DATE_LIMIT)
    => out = Collect(WithoutHints(rules),
                     iter_range(WithoutHints(rules), call.from, call.to).val)

\* ------------------------------------------------------------------------ C4
\* C4: for from < to <= DATE_LIMIT, iter_range(from, to) and
\* intervals(from, to) yield the same Dated Intervals.
C4_IntervalsEqualsIterRange ==
    (call.op = "iter_range" /\ status = "exhausted"
     /\ call.from < call.to /\ call.to <= DATE_LIMIT)
    => out = Collect(rules, intervals(rules, call.from, call.to).val)

\* ------------------------------------------------------------------------ C5
\* C5: in schedule_at(date), once the day selector of an earlier rule has
\* accepted the date, a Fallback rule leaves the accumulated match flag and
\* the accumulated schedule as they are, whether or not it accepts the date
\* itself or has a spill-over from the date before.
C5_FallbackInertOnceMatched ==
    call.op = "schedule_at"
    => \A k \in 1 .. Len(rules) :
          (/\ rules[k].operator = "Fallback"
           /\ \E j \in 1 .. k - 1 : filter(rules[j].day_selector, call.from))
          => accs[k + 1] = accs[k]

\* A Fallback rule that accepts the date and the date before it, after a rule
\* that accepted the date with another schedule.
C5_Witness ==
    /\ call.op = "schedule_at"
    /\ Len(rules) = 2
    /\ rules[2].operator = "Fallback"
    /\ filter(rules[1].day_selector, call.from)
    /\ filter(rules[2].day_selector, call.from)
    /\ filter(rules[2].day_selector, call.from - 1)
    /\ rule_sequence_schedule_at(rules[2], call.from) # accs[2].eval

\* ------------------------------------------------------------------------ C6
\* C6: in schedule_at(date), a Normal rule that accepts the date replaces the
\* accumulated schedule by its own schedule for the date, every sub-interval
\* of which has the rule's kind and comments; a Normal rule that does not
\* accept the date leaves an accumulated schedule that is present as it is,
\* also when the rule has a spill-over from the date before.
C6_NormalReplacesOrKeeps ==
    call.op = "schedule_at"
    => \A k \in 1 .. Len(rules) :
          rules[k].operator = "Normal"
          => IF filter(rules[k].day_selector, call.from)
             THEN /\ accs[k + 1].eval =
                        rule_sequence_schedule_at(rules[k], call.from)
                  /\ accs[k + 1].eval.some
                  /\ \A i \in 1 .. Len(accs[k + 1].eval.val) :
                        /\ accs[k + 1].eval.val[i].kind = rules[k].kind
                        /\ accs[k + 1].eval.val[i].comments = rules[k].comments
             ELSE accs[k].eval.some => accs[k + 1].eval = accs[k].eval

\* A Normal rule that does not accept the date but spills over into it, after
\* a rule that left a schedule.
C6_Witness ==
    /\ call.op = "schedule_at"
    /\ Len(rules) = 2
    /\ rules[2].operator = "Normal"
    /\ ~filter(rules[2].day_selector, call.from)
    /\ rule_sequence_schedule_at(rules[2], call.from).some
    /\ rule_sequence_schedule_at(rules[2], call.from).val # <<>>
    /\ accs[2].eval.some
    /\ accs[3].eval = accs[2].eval

\* A Normal rule that accepts the date, after a rule that left a schedule of
\* another kind, which is replaced.
C6_WitnessReplaced ==
    /\ call.op = "schedule_at"
    /\ Len(rules) = 2
    /\ rules[2].operator = "Normal"
    /\ filter(rules[2].day_selector, call.from)
    /\ accs[2].eval.some /\ accs[2].eval.val # <<>>
    /\ accs[2].eval.val[1].kind # rules[2].kind
    /\ accs[3].eval # accs[2].eval

\* ------------------------------------------------------------------------ C7
\* The minutes of the day a schedule covers.
Covered(sched) == {m \in 0 .. MinutesPerDay - 1 : CellAt(sched, m).some}

\* The minutes of a date the rule's time ranges hold when anchored on that
\* date, and those they hold of the next date.
OwnMinutes(rule) ==
    {m \in 0 .. MinutesPerDay - 1 :
        \E i \in 1 .. Len(rule.time_selector) :
            /\ rule.time_selector[i].start <= m
            /\ m < rule.time_selector[i].end}

SpillMinutes(rule) ==
    {m \in 0 .. MinutesPerDay - 1 :
        \E i \in 1 .. Len(rule.time_selector) :
            /\ rule.time_selector[i].start <= m + MinutesPerDay
            /\ m + MinutesPerDay < rule.time_selector[i].end}

\* C7: for an expression of one rule, schedule_at(date) covers the rule's
\* ranges clipped at 24:00 when the day selector accepts the date, the
\* continuation past 24:00 of its ranges (from 00:00) when the day selector
\* accepts the date before, whether or not it accepts the date, and the union
\* of both when it accepts both; every sub-interval has the rule's kind.
C7_SpillOverPastMidnight ==
    (call.op = "schedule_at" /\ Len(rules) = 1)
    => LET rule == rules[1]
           today == IF filter(rule.day_selector, call.from)
                    THEN OwnMinutes(rule) ELSE {}
           yesterday == IF filter(rule.day_selector, call.from - 1)
                        THEN SpillMinutes(rule) ELSE {}
       IN  /\ Covered(value.val) = today \cup yesterday
           /\ \A i \in 1 .. Len(value.val) :
                 /\ value.val[i].kind = rule.kind
                 /\ value.val[i].range.start < value.val[i].range.end
                 /\ value.val[i].range.end <= MinutesPerDay
           /\ \A i \in 1 .. Len(value.val) - 1 :
                 value.val[i].range.end < value.val[i + 1].range.start

\* A rule with a range past 24:00 whose day selector accepts the date and the
\* date before: the schedule holds the continuation and the date's own range.
C7_Witness ==
    /\ call.op = "schedule_at" /\ Len(rules) = 1
    /\ filter(rules[1].day_selector, call.from)
    /\ filter(rules[1].day_selector, call.from - 1)
    /\ SpillMinutes(rules[1]) # {}
    /\ SpillMinutes(rules[1]) \subseteq Covered(value.val)
    /\ OwnMinutes(rules[1]) \subseteq Covered(value.val)

\* A rule with a range past 24:00 whose day selector accepts the date before
\* but not the date: the schedule is the continuation alone.
C7_WitnessSpillOnly ==
    /\ call.op = "schedule_at" /\ Len(rules) = 1
    /\ ~filter(rules[1].day_selector, call.from)
    /\ filter(rules[1].day_selector, call.from - 1)
    /\ SpillMinutes(rules[1]) # {}
    /\ Covered(value.val) = SpillMinutes(rules[1])

\* ----------------------------------------------------------------------- C11
\* The sub-intervals of a schedule are not empty, end by 24:00, and each ends
\* no later than the next one starts.
NonOverlapping(sched) ==
    /\ \A i \in 1 .. Len(sched) :
          /\ 0 <= sched[i].range.start
          /\ sched[i].range.start < sched[i].range.end
          /\ sched[i].range.end <= MinutesPerDay
    /\ \A i \in 1 .. Len(sched) - 1 :
          sched[i].range.end <= sched[i + 1].range.start

\* The sub-intervals go from 00:00 to 24:00, each starting where the one
\* before it ends.
PartitionsDay(filled) ==
    /\ filled # <<>>
    /\ filled[1].range.start = 0
    /\ filled[Len(filled)].range.end = MinutesPerDay
    /\ \A i \in 1 .. Len(filled) :
          filled[i].range.start < filled[i].range.end
    /\ \A i \in 1 .. Len(filled) - 1 :
          filled[i].range.end = filled[i + 1].range.start

\* Each sub-interval ends before the next one starts: spans that overlap or
\* touch are one sub-interval.
Merged(sched) ==
    \A i \in 1 .. Len(sched) - 1 :
        sched[i].range.end < sched[i + 1].range.start

\* C11: whatever the rules and the date, the sub-intervals of
\* schedule_at(date) do not overlap, those of an expression of one rule are
\* merged where the rule's time spans overlap, and the filled schedule
\* partitions 00:00-24:00 with no gap and no overlap.
C11_ScheduleDisjointAndFilledPartitions ==
    call.op = "schedule_at"
    => /\ NonOverlapping(value.val)
       /\ Len(rules) = 1 => Merged(value.val)
       /\ PartitionsDay(into_iter_filled(value.val))

\* A rule of two overlapping time spans whose day selector accepts the date
\* and the date before: one sub-interval over both spans and the spill-over.
C11_Witness ==
    /\ call.op = "schedule_at" /\ Len(rules) = 1
    /\ Len(rules[1].time_selector) = 2
    /\ filter(rules[1].day_selector, call.from)
    /\ filter(rules[1].day_selector, call.from - 1)
    /\ Len(value.val) = 1
    /\ value.val[1].range = Range(0, MinutesPerDay)

\* An Additional rule on top of a schedule of another kind: two sub-intervals
\* of different kinds, and a filled schedule of as many.
C11_WitnessMixed ==
    /\ call.op = "schedule_at" /\ Len(rules) = 2
    /\ rules[2].operator = "Additional"
    /\ Len(value.val) = 2
    /\ value.val[1].kind # value.val[2].kind
    /\ Len(into_iter_filled(value.val)) = 2

\* ----------------------------------------------------------------------- C12
\* The kind a schedule gives minute m, "none" where it has no sub-interval.
KindAt(sched, m) ==
    IF CellAt(sched, m).some THEN CellAt(sched, m).val.kind ELSE "none"

\* Schedule `sum` is the addition of a and b: it covers what either covers,
\* with the kind of the one that covers a minute alone and, where both do,
\* Open if either is Open and else one of the two kinds.
IsAdditionOf(sum, a, b) ==
    \A m \in 0 .. MinutesPerDay - 1 :
        /\ KindAt(sum, m) = "none"
           <=> (KindAt(a, m) = "none" /\ KindAt(b, m) = "none")
        /\ KindAt(b, m) = "none" => KindAt(sum, m) = KindAt(a, m)
        /\ KindAt(a, m) = "none" => KindAt(sum, m) = KindAt(b, m)
        /\ KindAt(sum, m) \in {KindAt(a, m), KindAt(b, m)}
        /\ "Open" \in {KindAt(a, m), KindAt(b, m)} => KindAt(sum, m) = "Open"

\* What an Additional rule makes of the accumulated pair `prev`: `new`.
AdditionalStep(prev, curr_match, curr_eval, new) ==
    /\ new.match = (prev.match \/ curr_match)
    /\ new.match = new_match_eval("Additional", curr_match, curr_eval,
                                  prev.match, prev.eval).match
    /\ IF prev.eval.some /\ curr_eval.some
       THEN /\ new.eval.some
            /\ IsAdditionOf(new.eval.val, prev.eval.val, curr_eval.val)
       ELSE IF prev.eval.some THEN new.eval = prev.eval
       ELSE new.eval = curr_eval

\* C12: in schedule_at(date), the match flag after an Additional rule is the
\* flag before it or the rule's own match, whichever side is which; when the
\* accumulated pair and the rule both have a schedule the result is their
\* addition, where Open overrides Closed and Unknown on every minute both
\* cover; when one of them has a schedule, that schedule is the result.
C12_AdditionalMatchOrAndOpenOverrides ==
    call.op = "schedule_at"
    => \A k \in 1 .. Len(rules) :
          rules[k].operator = "Additional"
          => AdditionalStep(accs[k],
                            filter(rules[k].day_selector, call.from),
                            rule_sequence_schedule_at(rules[k], call.from),
                            accs[k + 1])

\* An Additional rule that is not Open on a minute the accumulated schedule
\* has Open: the minute stays Open.
C12_Witness ==
    /\ call.op = "schedule_at" /\ Len(rules) = 2
    /\ rules[2].operator = "Additional"
    /\ rules[2].kind # "Open"
    /\ accs[2].eval.some
    /\ rule_sequence_schedule_at(rules[2], call.from).some
    /\ \E m \in 0 .. MinutesPerDay - 1 :
          /\ KindAt(accs[2].eval.val, m) = "Open"
          /\ KindAt(rule_sequence_schedule_at(rules[2], call.from).val, m)
                \in {"Closed", "Unknown"}
          /\ KindAt(value.val, m) = "Open"

\* An Additional rule that has no schedule for the date: the accumulated
\* schedule is the result.
C12_WitnessOneSide ==
    /\ call.op = "schedule_at" /\ Len(rules) = 2
    /\ rules[2].operator = "Additional"
    /\ ~rule_sequence_schedule_at(rules[2], call.from).some
    /\ accs[2].eval.some /\ accs[2].eval.val # <<>>
    /\ accs[3].eval = accs[2].eval

\* ----------------------------------------------------------------------- C13
\* char::to_lowercase on the characters of the region codes.
LowerChar(c) ==
    CASE c = "F" -> "f"
      [] c = "R" -> "r"
      [] OTHER -> c

\* Two codes are the same but for the case of their letters.
SameIgnoringCase(a, b) ==
    /\ Len(a) = Len(b)
    /\ \A i \in 1 .. Len(a) : LowerChar(a[i]) = LowerChar(b[i])

\* The registered codes that are `region` but for the case.
RegisteredAs(region) ==
    {key \in DOMAIN REGION_HOLIDAYS : SameIgnoringCase(key, region)}

C13_WitnessNotFound ==
    /\ call.op = "with_region"
    /\ status = "error"
    /\ call.self.ctx.holidays # EMPTY_CALENDAR
    /\ ctx.holidays = call.self.ctx.holidays

\* ----------------------------------------------------------------------- C14
\* The intervals go from `from` to `to`, each starting where the one before
\* it ends.
Tiles(items, from, to) ==
    /\ items # <<>>
    /\ items[1].start = from
    /\ items[Len(items)].end = to
    /\ \A i \in 1 .. Len(items) - 1 : items[i].end = items[i + 1].start

\* C14: for from < to <= DATE_LIMIT, the Dated Intervals iter_range(from, to)
\* yields tile [from, to): the first starts at from, each ends where the next
\* starts, and the last ends at to, also when to is not at midnight and is on
\* a later date than from.
C14_IterRangeTilesWindow ==
    (call.op = "iter_range" /\ status = "exhausted"
     /\ call.from < call.to /\ call.to <= DATE_LIMIT)
    => Tiles(out, call.from, call.to)

\* ----------------------------------------------------------------------- C15
\* `kind` is the kind of the sub-interval `cell`, and there is one.
IsKindOf(kind, cell) == cell.some /\ kind = cell.val.kind

\* Whether the sub-interval tr holds time t.
Contains(tr, t) == tr.range.start <= t /\ t < tr.range.end

\* `cursor` is what is left of `filled` once its leading sub-intervals that do
\* not hold t are dropped, and no more than those.
SkippedTo(filled, cursor, t) ==
    /\ cursor # <<>>
    /\ Contains(Head(cursor), t)
    /\ Len(cursor) <= Len(filled)
    /\ cursor = SubSeq(filled, Len(filled) - Len(cursor) + 1, Len(filled))
    /\ \A i \in 1 .. Len(filled) - Len(cursor) : ~Contains(filled[i], t)

\* C15: when state(t) answers, its answer is the kind of the sub-interval of
\* the filled schedule_at(date of t) that holds t's time of day, and there is
\* such a sub-interval; a new iterator's cursor is the filled schedule of the
\* start date without the leading sub-intervals that do not hold the start
\* time.
C15_StateIsKindAtTimeOfDay ==
    /\ (call.op = "state" /\ value.ok)
       => IsKindOf(value.val,
                   CellAt(into_iter_filled(
                              schedule_at(rules, DateOf(call.from))),
                          ExtendedTimeOf(call.from)))
    /\ (call.op = "iter_range" /\ status = "iterating" /\ out = <<>>
        /\ call.from < call.to)
       => SkippedTo(into_iter_filled(schedule_at(rules, DateOf(call.from))),
                    iter.it.curr_schedule, ExtendedTimeOf(call.from))

\* state has answered for an instant that is not on a minute, in a
\* sub-interval that is not the first of its day nor of the first one's kind.
C15_Witness ==
    /\ call.op = "state" /\ value.ok
    /\ call.from % TicksPerMinute # 0
    /\ ExtendedTimeOf(call.from) > 0
    /\ value.val #
          into_iter_filled(schedule_at(rules, DateOf(call.from)))[1].kind

\* A new iterator whose cursor has dropped a leading sub-interval.
C15_WitnessSkipped ==
    /\ call.op = "iter_range" /\ status = "iterating" /\ out = <<>>
    /\ Len(iter.it.curr_schedule) <
          Len(into_iter_filled(schedule_at(rules, DateOf(call.from))))

\* ----------------------------------------------------------------------- C17
\* The hint of each rule's day selector for a date.
HintsOf(rs, date) ==
    {selector_next_change_hint(rs[i].day_selector, date) : i \in 1 .. Len(rs)}

\* The date to advance to from `date`: the earliest of the hints when there
\* are rules and each gives one, the next calendar date otherwise.
AdvanceFrom(hints, date) ==
    IF hints # {} /\ \A h \in hints : h.some
    THEN CHOOSE d \in {h.val : h \in hints} : \A h \in hints : d <= h.val
    ELSE date + 1

\* `to` is the date to advance to from `date`, and no hint is before it.
IsAdvanceFrom(to, hints, date) ==
    /\ to = AdvanceFrom(hints, date)
    /\ \A h \in hints : h.some => to <= h.val

\* The dates an iterator started on `date` is on, one advance after the other,
\* up to the date of DATE_LIMIT.
RECURSIVE AdvancesFrom(_, _)
AdvancesFrom(rs, date) ==
    IF date >= DateLimitDay THEN {date}
    ELSE {date} \cup AdvancesFrom(rs, AdvanceFrom(HintsOf(rs, date), date))

\* C17: the date the iterator advances to from its current date is the
\* earliest of the rules' hints when every rule gives one, the next calendar
\* date when a rule gives none or there is no rule, and never after a rule's
\* hint; the iterator is only ever on dates reached that way from the date it
\* started on.
C17_AdvanceToEarliestHintOrNextDate ==
    (call.op \in IterCalls /\ status \in {"iterating", "exhausted"})
    => /\ IsAdvanceFrom(next_date(rules, iter.it.curr_date),
                        HintsOf(rules, iter.it.curr_date),
                        iter.it.curr_date)
       /\ iter.it.curr_date \in AdvancesFrom(rules, DateOf(call.from))

\* Two rules whose hints for the start date differ: the iterator has advanced
\* to the earlier one, past the next calendar date.
C17_Witness ==
    /\ call.op \in IterCalls /\ Len(rules) = 2 /\ out # <<>>
    /\ \A h \in HintsOf(rules, DateOf(call.from)) : h.some
    /\ Cardinality(HintsOf(rules, DateOf(call.from))) = 2
    /\ iter.it.curr_date > DateOf(call.from) + 1
    /\ \A h \in HintsOf(rules, DateOf(call.from)) :
          iter.it.curr_date <= h.val

\* A rule with a hint after the next calendar date and a rule without a hint:
\* the iterator has advanced to the next calendar date.
C17_WitnessNoHint ==
    /\ call.op \in IterCalls /\ Len(rules) = 2 /\ out # <<>>
    /\ \E h \in HintsOf(rules, DateOf(call.from)) : ~h.some
    /\ \E h \in HintsOf(rules, DateOf(call.from)) :
          h.some /\ h.val > DateOf(call.from) + 1
    /\ iter.it.curr_date = DateOf(call.from) + 1

\* ----------------------------------------------------------------------- C16
\* Every hint for `date` is strictly after it.
HintsAreLater(rs, date) ==
    \A h \in HintsOf(rs, date) : h.some => h.val > date

\* A further next() returns nothing and leaves the iterator as it is.
ReturnsNothing(ad, r) == ~r.item.some /\ r.ad = ad

\* The iterator `ad` of a call from `from`, after `items` were yielded: its
\* date is not before the start date nor after the date of DATE_LIMIT, the
\* next advance is to a later date, a date it advanced to that is not before
\* the date of end_datetime has no schedule, and no more intervals were
\* yielded than there are minutes below DATE_LIMIT.
IteratorBounded(rs, from, it, items) ==
    /\ DateOf(from) <= it.curr_date
    /\ it.curr_date <= DateLimitDay
    /\ HintsAreLater(rs, it.curr_date)
       => next_date(rs, it.curr_date) > it.curr_date
    /\ (it.curr_date > DateOf(from)
        /\ it.curr_date >= DateOf(it.end_datetime))
       => it.curr_schedule = <<>>
    /\ Len(items) <= DateLimitDay * MinutesPerDay

C16_Safe ==
    (call.op \in IterCalls /\ status \in {"iterating", "exhausted"})
    => /\ IteratorBounded(rules, call.from, iter.it, out)
       /\ status = "exhausted"
          => ReturnsNothing(iter, Adapted_next(rules, iter))

\* A next() does not move the iterator to an earlier date, moves it to a
\* later one when it leaves the day's cursor exhausted, and either yields one
\* more interval or nothing, which ends the iteration.
C16_Step ==
    status = "iterating"
    => /\ iter'.it.curr_date >= iter.it.curr_date
       /\ (iter.it.curr_schedule # <<>> /\ iter'.it.curr_schedule = <<>>)
          => iter'.it.curr_date > iter.it.curr_date
       /\ \/ Len(out') = Len(out) + 1 /\ status' = "iterating"
          \/ out' = out /\ status' = "exhausted"

\* C16: with hints strictly after the date asked about, every next() returns,
\* the iterator's date never decreases and increases when the day's cursor is
\* exhausted, no schedule is installed for a date that is not before the date
\* of the target end, and the iterator yields finitely many intervals (each
\* next() yields one more or ends the iteration, and their number is bounded)
\* and then nothing, on every later call too.
C16_IteratorTerminates ==
    /\ []C16_Safe
    /\ [][C16_Step]_vars

\* An iterator that has gone through the days up to DATE_LIMIT, yielded
\* three intervals and then nothing.
C16_Witness ==
    /\ call.op = "iter_from" /\ status = "exhausted"
    /\ Len(out) >= 3
    /\ iter.it.curr_date >= DateLimitDay
    /\ iter.it.curr_schedule = <<>>

\* ----------------------------------------------------------------------- C18
\* The rule's day selector accepts neither the date nor the date before it.
ContributesNothing(rule, date) ==
    /\ ~filter(rule.day_selector, date)
    /\ ~filter(rule.day_selector, date - 1)

\* C18: in schedule_at(date), a rule whose day selector accepts neither the
\* date nor the date before it leaves the accumulated match flag and schedule
\* as they are, whatever its operator, also when the accumulated schedule is
\* the spill-over of an earlier rule that accepted the date before.
C18_RuleWithoutContributionIsNoOp ==
    call.op = "schedule_at"
    => \A k \in 1 .. Len(rules) :
          ContributesNothing(rules[k], call.from) => accs[k + 1] = accs[k]

\* ----------------------------------------------------------------------- C19
\* The points the ranges hold, each range holding its start and not its end.
PointsOf(ranges) ==
    {p \in 0 .. MaxPoint :
        \E i \in 1 .. Len(ranges) :
            ranges[i].start <= p /\ p < ranges[i].end}

\* The ranges are by increasing start and each ends before the next starts.
SortedApart(ranges) ==
    /\ \A i \in 1 .. Len(ranges) : ranges[i].start <= ranges[i].end
    /\ \A i \in 1 .. Len(ranges) - 1 :
          /\ ranges[i].start < ranges[i + 1].start
          /\ ranges[i].end < ranges[i + 1].start

Reverse(seq) == [i \in 1 .. Len(seq) |-> seq[Len(seq) + 1 - i]]

\* C19: for ranges with start <= end in any order, time_ranges_union yields
\* ranges by increasing start, each ending strictly before the next starts
\* (ranges that overlap or touch are merged), holding the points of the input
\* and no other; it yields the same for the input in the reverse order, and
\* its output again when applied to its output.
C19_UnionSortedApartSamePointsIdempotent ==
    (call.op = "time_ranges_union" /\ status = "returned")
    => /\ SortedApart(value.val)
       /\ PointsOf(value.val) = PointsOf(call.ranges)
       /\ Len(value.val) <= Len(call.ranges)
       /\ time_ranges_union(Reverse(call.ranges)) = value.val
       /\ time_ranges_union(value.val) = value.val

\* Three ranges not in the order of their starts, two of which touch: they
\* are merged, and two ranges are yielded.
C19_Witness ==
    /\ call.op = "time_ranges_union" /\ status = "returned"
    /\ Len(call.ranges) = 3 /\ Len(value.val) = 2
    /\ call.ranges[1].start > call.ranges[2].start
    /\ \E i \in 1 .. 3, j \in 1 .. 3 :
          /\ call.ranges[i].start < call.ranges[i].end
          /\ call.ranges[i].end = call.ranges[j].start
          /\ call.ranges[j].start < call.ranges[j].end

\* ----------------------------------------------------------------------- C20
\* The intersection of two results of range_intersection, an absent one
\* standing for the empty range.
Meet(x, y) ==
    IF x.some /\ y.some THEN range_intersection(x.val, y.val) ELSE None

\* `result` is max(starts) .. min(ends), absent exactly when that is empty.
IsIntersection(result, a, b) ==
    /\ ~result.some <=> Max2(a.start, b.start) >= Min2(a.end, b.end)
    /\ result.some
       => result.val = Range(Max2(a.start, b.start), Min2(a.end, b.end))

\* C20: range_intersection(a, b) is range_intersection(b, a); intersecting
\* (a with b) with c gives what a with (b with c) gives, an absent result
\* standing for the empty range; the result is absent exactly when
\* max(starts) >= min(ends), so for two ranges that only touch.
C20_IntersectionCommutativeAssociative ==
    (call.op = "range_intersection" /\ status = "returned")
    => /\ value.val = range_intersection(call.b, call.a)
       /\ Meet(value.val, Some(call.c))
             = Meet(Some(call.a), range_intersection(call.b, call.c))
       /\ IsIntersection(value.val, call.a, call.b)

\* Two ranges that are not empty and touch: no intersection.
C20_Witness ==
    /\ call.op = "range_intersection" /\ status = "returned"
    /\ call.a.start < call.a.end
    /\ call.a.end = call.b.start
    /\ call.b.start < call.b.end
    /\ ~value.val.some

\* Three ranges that have a point in common: a, b and c intersect.
C20_WitnessThree ==
    /\ call.op = "range_intersection" /\ status = "returned"
    /\ value.val.some
    /\ Meet(value.val, Some(call.c)).some
    /\ call.a # call.b /\ call.b # call.c /\ call.a # call.c

\* ----------------------------------------------------------------------- C21
\* C21: state(t) fails with the date-limit-exceeded condition exactly when t
\* is at or after DATE_LIMIT; for every t below DATE_LIMIT, those less than
\* one minute below it too, it returns a state kind.
C21_StateFailsExactlyFromLimit ==
    call.op = "state"
    => /\ ~value.ok <=> call.from >= DATE_LIMIT
       /\ call.from < DATE_LIMIT => (value.ok /\ value.val \in Kinds)

====
